---------------------------- MODULE Spec2Model ----------------------------
(***************************************************************************)
(* costctl: the reporting and aggregation engine (package reporter).       *)
(*                                                                         *)
(* A Reporter holds the caller's session sequence and a Config.  Generate  *)
(* filters the sessions by the configured period (reading the clock),      *)
(* sums the totals, builds the dimension lists, the session details and    *)
(* the anomaly list, and returns the Report.                               *)
(*                                                                         *)
(* Time.  A time.Time is modelled as [day, sec]: the number of days since  *)
(* 0001-01-01 (Go's zero time is day 0, second 0) and the second of that   *)
(* day, both in the local zone, which is taken to be a fixed offset.       *)
(*                                                                         *)
(* Cost.  A float64 cost is modelled as a binary floating point number     *)
(* with a MantBits-bit significand whose unit is one currency quantum:     *)
(* the representable values are the naturals with at most MantBits         *)
(* significant bits, and every addition rounds to nearest, ties to even,   *)
(* as IEEE-754 addition does.                                              *)
(*                                                                         *)
(* The report command (runReport) validates its flags, parses the         *)
(* sessions, builds a Reporter, generates and prints; it is modelled as    *)
(* the steps of that function, in order.                                   *)
(*                                                                         *)
(* Strings.  Model names are sequences of one-character strings, so that   *)
(* the substring search of containsOpus is computed, not assumed.          *)
(***************************************************************************)
EXTENDS Integers, Sequences, FiniteSets, TLC

VARIABLES
    sessions,   \* Reporter.sessions: the caller's session sequence
    config,     \* Reporter.config
    now,        \* the wall clock, as time.Now() reads it
    clock,      \* the instants the wall clock will still show, in order
    filtered,   \* Generate's local "filtered" of the last call
    report,     \* the Report the last Generate returned, or NoReport
    cmd,        \* the report command: its flags and how far runReport has
                \* come, or NoCmd when the reporter is used as a library
    parser,     \* the session parser at work on one agent's sessions
                \* directory or on one session key, or NoParser
    tasks       \* the aggregation loops run as tasks of their own: how far
                \* each has come and its accumulator, or NoTasks

vars == <<sessions, config, now, clock, filtered, report, cmd, parser, tasks>>

-----------------------------------------------------------------------------
(* Bounds of the model *)

MaxSessions == 3        \* sessions handed to New, aggregation runs
MaxFilterInput == 2     \* sessions handed to New, period-filter runs
MaxDetectInput == 2     \* sessions handed to New, anomaly runs
MantBits == 3           \* bits of the significand of a cost
MaxCronInput == 6       \* sessions handed to New, cron runs

-----------------------------------------------------------------------------
(* time.Time: the calendar arithmetic behind time.Date and Time.AddDate *)

SecondsPerDay == 24 * 60 * 60

ZeroTime == [day |-> 0, sec |-> 0]

IsZero(t) == t.day = 0 /\ t.sec = 0

After(t, u) == t.day > u.day \/ (t.day = u.day /\ t.sec > u.sec)

Before(t, u) == t.day < u.day \/ (t.day = u.day /\ t.sec < u.sec)

\* Days from 0001-01-01 to the first of month m (1..12) of year y, plus d - 1.
DaysFromCivil(y, m, d) ==
    LET yy  == IF m <= 2 THEN y - 1 ELSE y
        era == yy \div 400
        yoe == yy - era * 400
        mp  == IF m > 2 THEN m - 3 ELSE m + 9
        doy == (153 * mp + 2) \div 5 + d - 1
        doe == yoe * 365 + yoe \div 4 - yoe \div 100 + doy
    IN  era * 146097 + doe - 306

\* The civil date <<year, month, day>> of a day number.
CivilFromDays(n) ==
    LET z   == n + 306
        era == z \div 146097
        doe == z - era * 146097
        yoe == (doe - doe \div 1460 + doe \div 36524 - doe \div 146096) \div 365
        doy == doe - (365 * yoe + yoe \div 4 - yoe \div 100)
        mp  == (5 * doy + 2) \div 153
        d   == doy - (153 * mp + 2) \div 5 + 1
        m   == IF mp < 10 THEN mp + 3 ELSE mp - 9
        y   == yoe + era * 400
    IN  << IF m <= 2 THEN y + 1 ELSE y, m, d >>

Year(t)  == CivilFromDays(t.day)[1]
Month(t) == CivilFromDays(t.day)[2]
Day(t)   == CivilFromDays(t.day)[3]

\* time.Date(y, m, d, 0, 0, sec, 0, loc): month and day out of range are
\* normalised (October 32 is November 1, month 0 is December of y - 1).
Date(y, m, d, sec) ==
    LET y1 == y + (m - 1) \div 12
        m1 == ((m - 1) % 12) + 1
    IN  [day |-> DaysFromCivil(y1, m1, 1) + d - 1, sec |-> sec]

\* t.AddDate(years, months, days): the same wall-clock time on the
\* normalised date.
AddDate(t, years, months, days) ==
    Date(Year(t) + years, Month(t) + months, Day(t) + days, t.sec)

-----------------------------------------------------------------------------
(* float64 arithmetic on costs *)

RECURSIVE Ulp(_)
\* The spacing of the representable values around x.
Ulp(x) == IF x < 2^MantBits THEN 1 ELSE 2 * Ulp(x \div 2)

\* Round to nearest representable value, ties to the even significand.
Round(x) ==
    LET q   == Ulp(x)
        lo  == (x \div q) * q
        rem == x - lo
    IN  IF 2 * rem < q THEN lo
        ELSE IF 2 * rem > q THEN lo + q
        ELSE IF (x \div q) % 2 = 0 THEN lo ELSE lo + q

\* a + b on float64 values
FAdd(a, b) == Round(a + b)


\* a / n on float64 values, n a positive count.  The quotient is returned in
\* units of 1 / AvgScale of the cost quantum, rounded to MantBits significant
\* bits (to nearest, ties to even).
AvgScale == 2^(2 * MantBits)

FDiv(a, n) ==
    LET num == a * AvgScale
        f   == num \div n
        q   == Ulp(f)
        lo  == (f \div q) * q
        rem == num - lo * n          \* in units of 1 / n
    IN  IF 2 * rem < q * n THEN lo
        ELSE IF 2 * rem > q * n THEN lo + q
        ELSE IF (f \div q) % 2 = 0 THEN lo ELSE lo + q

-----------------------------------------------------------------------------
(* parser.Session, parser.Usage, Config *)

SessionTypeInteractive == "interactive"
SessionTypeCron        == "cron"
SessionTypeSubagent    == "subagent"

\* A parser.Session as the reporter reads it.  cron is both CronID and
\* CronName (the name is derived from the id); model is a character sequence.
Session(id, agent, type, cron, model, cost, inTok, outTok, total, start) ==
    [ID |-> id, Agent |-> agent, Type |-> type,
     CronID |-> cron, CronName |-> cron,
     StartedAt |-> start, Duration |-> IF IsZero(start) THEN 0 ELSE 60,
     Usage |-> [Input |-> inTok, Output |-> outTok, Total |-> total,
                CostTotal |-> cost, Model |-> model]]

Config(period, agent, crons, models, full, threshold) ==
    [Period |-> period, Agent |-> agent, Crons |-> crons, Models |-> models,
     Full |-> full, Threshold |-> threshold]

\* A slice that may be nil (Report.ByCron, Report.Sessions).
NilSlice == [isNil |-> TRUE, elems |-> << >>]
Slice(xs) == [isNil |-> FALSE, elems |-> xs]

-----------------------------------------------------------------------------
(* filterByPeriod *)

\* A faulty variant of keepAfter: a session with unknown start passes.
keepAfterOrUnknown(s, cutoff) ==
    IsZero(s.StartedAt) \/ After(s.StartedAt, cutoff)

\* The conditions of the two loops
\* "for s in sessions: if keep(s) then append(result, s)".
keepAfter(s, cutoff) == ~IsZero(s.StartedAt) /\ After(s.StartedAt, cutoff)

keepBetween(s, cutoff, nextDay) ==
    ~IsZero(s.StartedAt) /\ After(s.StartedAt, cutoff)
                         /\ Before(s.StartedAt, nextDay)

\* The cutoff the switch computes; no case matches an unknown label and the
\* cutoff stays the zero time.
cutoffOf(period, t) ==
    CASE period = "today"     -> Date(Year(t), Month(t), Day(t), 0)
      [] period = "yesterday" ->
            LET yesterday == AddDate(t, 0, 0, -1)
            IN  Date(Year(yesterday), Month(yesterday), Day(yesterday), 0)
      [] period = "week"      -> AddDate(t, 0, 0, -7)
      [] period = "month"     -> AddDate(t, 0, -1, 0)
      [] OTHER                -> ZeroTime

\* A faulty variant of isAllPeriods: the empty label is not taken as "all".
isAllPeriodsNamedOnly(period) == period = "all"

\* The early return of filterByPeriod.
isAllPeriods(period) == period = "" \/ period = "all"

filterByPeriod(ss, period, t) ==
    IF isAllPeriods(period) THEN ss
    ELSE IF period = "yesterday"
         THEN LET nextDay == Date(Year(t), Month(t), Day(t), 0)
                  cutoff  == cutoffOf(period, t)
              IN  SelectSeq(ss, LAMBDA s : keepBetween(s, cutoff, nextDay))
         ELSE LET cutoff == cutoffOf(period, t)
              IN  SelectSeq(ss, LAMBDA s : keepAfter(s, cutoff))

-----------------------------------------------------------------------------
(* sort.Slice over the values of a map *)

\* The orders sort.Slice can leave the elements of S in, less being the
\* set of pairs <<a, b>> with a "less" than b: every arrangement in which no
\* element is less than an earlier one.  Map iteration order is random and
\* sort.Slice is not stable, so elements that compare equal come out in
\* any order.
SortOutcomes(S, less) ==
    {p \in [1..Cardinality(S) -> S] :
        /\ \A i, j \in 1..Cardinality(S) : i # j => p[i] # p[j]
        /\ \A i, j \in 1..Cardinality(S) :
              i < j => <<p[j], p[i]>> \notin less}

\* The values of a map.
Values(agg) == {agg[k] : k \in DOMAIN agg}

\* agg[key] = val, the other entries unchanged.
Put(agg, key, val) ==
    [k \in DOMAIN agg \cup {key} |-> IF k = key THEN val ELSE agg[k]]

\* A faulty variant of costDesc: the cheapest first.
costAsc(S) == {<<a, b>> \in S \X S : a.TotalCost < b.TotalCost}

\* less(i, j) of the cost-descending sorts, on the summaries S
costDesc(S) == {<<a, b>> \in S \X S : a.TotalCost > b.TotalCost}

-----------------------------------------------------------------------------
(* The dimension aggregators.  Each returns the set of lists the Go code can
   return: one list when no two groups tie in the sort order. *)

\* A faulty variant of addToAgent: the total tokens taken as input plus output.
addToAgentTokensFromParts(a, s) ==
    [a EXCEPT !.Sessions     = @ + 1,
              !.TotalCost    = FAdd(@, s.Usage.CostTotal),
              !.InputTokens  = @ + s.Usage.Input,
              !.OutputTokens = @ + s.Usage.Output,
              !.TotalTokens  = @ + s.Usage.Input + s.Usage.Output]

\* A faulty variant of addToAgent: the input tokens taken from the output.
addToAgentInputFromOutput(a, s) ==
    [a EXCEPT !.Sessions     = @ + 1,
              !.TotalCost    = FAdd(@, s.Usage.CostTotal),
              !.InputTokens  = @ + s.Usage.Output,
              !.OutputTokens = @ + s.Usage.Output,
              !.TotalTokens  = @ + s.Usage.Total]

\* One session added to its agent's summary.
addToAgent(a, s) ==
    [a EXCEPT !.Sessions     = @ + 1,
              !.TotalCost    = FAdd(@, s.Usage.CostTotal),
              !.InputTokens  = @ + s.Usage.Input,
              !.OutputTokens = @ + s.Usage.Output,
              !.TotalTokens  = @ + s.Usage.Total]

RECURSIVE accByAgent(_, _)
accByAgent(ss, agg) ==
    IF ss = << >> THEN agg
    ELSE LET s  == Head(ss)
             a0 == IF s.Agent \in DOMAIN agg THEN agg[s.Agent]
                   ELSE [Agent |-> s.Agent, Sessions |-> 0, TotalCost |-> 0,
                         InputTokens |-> 0, OutputTokens |-> 0, TotalTokens |-> 0]
         IN  accByAgent(Tail(ss), Put(agg, s.Agent, addToAgent(a0, s)))

aggregateByAgent(ss) ==
    LET result == Values(accByAgent(ss, << >>))
    IN  SortOutcomes(result, costDesc(result))

RECURSIVE accBySessionType(_, _)
accBySessionType(ss, agg) ==
    IF ss = << >> THEN agg
    ELSE LET s  == Head(ss)
             t0 == IF s.Type \in DOMAIN agg THEN agg[s.Type]
                   ELSE [Type |-> s.Type, Sessions |-> 0, TotalCost |-> 0,
                         TotalTokens |-> 0]
             t1 == [t0 EXCEPT !.Sessions    = @ + 1,
                              !.TotalCost   = FAdd(@, s.Usage.CostTotal),
                              !.TotalTokens = @ + s.Usage.Total]
         IN  accBySessionType(Tail(ss), Put(agg, s.Type, t1))

\* order[type]; a type missing from the map reads as 0.
typeOrder(type) ==
    CASE type = SessionTypeInteractive -> 0
      [] type = SessionTypeCron        -> 1
      [] type = SessionTypeSubagent    -> 2
      [] OTHER                         -> 0

\* A faulty variant of typeAsc: the types in order of cost, as the other lists.
typeByCostDesc(S) == {<<a, b>> \in S \X S : a.TotalCost > b.TotalCost}

\* less(i, j) of the sort by type, on the summaries S
typeAsc(S) == {<<a, b>> \in S \X S : typeOrder(a.Type) < typeOrder(b.Type)}

aggregateBySessionType(ss) ==
    LET result == Values(accBySessionType(ss, << >>))
    IN  SortOutcomes(result, typeAsc(result))

\* A faulty variant of maxCostAfter: the cost of the last run.
maxCostLast(c, s) == s.Usage.CostTotal

\* The running maximum of a job's run costs, after the run s.
maxCostAfter(c, s) ==
    IF s.Usage.CostTotal > c.MaxCost THEN s.Usage.CostTotal ELSE c.MaxCost

\* A faulty variant of isCronRun: every session is counted as a run.
isCronRunAlways(s) == TRUE

\* The sessions the by-cron list counts.
isCronRun(s) == s.Type = SessionTypeCron

RECURSIVE accByCron(_, _)
accByCron(ss, agg) ==
    IF ss = << >> THEN agg
    ELSE LET s   == Head(ss)
             key == <<s.CronName, s.CronID>>
             c0  == IF key \in DOMAIN agg THEN agg[key]
                    ELSE [CronName |-> s.CronName, CronID |-> s.CronID,
                          Runs |-> 0, TotalCost |-> 0, AvgCost |-> 0,
                          MaxCost |-> 0, TotalTokens |-> 0]
             c1  == [c0 EXCEPT !.Runs        = @ + 1,
                               !.TotalCost   = FAdd(@, s.Usage.CostTotal),
                               !.TotalTokens = @ + s.Usage.Total,
                               !.MaxCost     = maxCostAfter(c0, s)]
         IN  IF ~isCronRun(s)
             THEN accByCron(Tail(ss), agg)
             ELSE accByCron(Tail(ss), Put(agg, key, c1))

\* The second loop: the average of every group with at least one run.
withAvgUndivided(c) ==
    IF c.Runs > 0 THEN [c EXCEPT !.AvgCost = c.TotalCost * AvgScale] ELSE c

\* The average of a job's runs, set once the runs are all counted.
withAvg(c) ==
    IF c.Runs > 0 THEN [c EXCEPT !.AvgCost = FDiv(c.TotalCost, c.Runs)] ELSE c

aggregateByCron(ss) ==
    LET result == {withAvg(c) : c \in Values(accByCron(ss, << >>))}
    IN  SortOutcomes(result, costDesc(result))

Unknown == <<"u", "n", "k", "n", "o", "w", "n">>

\* A faulty variant of modelKey: the empty model is a key of its own.
modelKeyAsIs(s) == s.Usage.Model

\* The key a session is counted under.
modelKey(s) == IF s.Usage.Model = << >> THEN Unknown ELSE s.Usage.Model

RECURSIVE accByModel(_, _)
accByModel(ss, agg) ==
    IF ss = << >> THEN agg
    ELSE LET s     == Head(ss)
             model == modelKey(s)
             m0    == IF model \in DOMAIN agg THEN agg[model]
                      ELSE [Model |-> model, Sessions |-> 0, TotalCost |-> 0,
                            InputTokens |-> 0, OutputTokens |-> 0,
                            TotalTokens |-> 0]
             m1    == [m0 EXCEPT !.Sessions     = @ + 1,
                                 !.TotalCost    = FAdd(@, s.Usage.CostTotal),
                                 !.InputTokens  = @ + s.Usage.Input,
                                 !.OutputTokens = @ + s.Usage.Output,
                                 !.TotalTokens  = @ + s.Usage.Total]
         IN  accByModel(Tail(ss), Put(agg, model, m1))

aggregateByModel(ss) ==
    LET result == Values(accByModel(ss, << >>))
    IN  SortOutcomes(result, costDesc(result))

\* StartedAt.Format("2006-01-02"): the date as <<year, month, day>>; the
\* zero-padded strings compare as these triples do.
FormatDate(t) == CivilFromDays(t.day)

dateLess(x, y) ==
    \/ x[1] < y[1]
    \/ x[1] = y[1] /\ x[2] < y[2]
    \/ x[1] = y[1] /\ x[2] = y[2] /\ x[3] < y[3]

\* A faulty variant of skippedByDay: no session is left out.
skippedByDayNever(s) == FALSE

\* The sessions the by-day list leaves out: those without a start time.
skippedByDay(s) == IsZero(s.StartedAt)

RECURSIVE accByDay(_, _)
accByDay(ss, agg) ==
    IF ss = << >> THEN agg
    ELSE LET s    == Head(ss)
             date == FormatDate(s.StartedAt)
             d0   == IF date \in DOMAIN agg THEN agg[date]
                     ELSE [Date |-> date, Sessions |-> 0, TotalCost |-> 0,
                           TotalTokens |-> 0]
             d1   == [d0 EXCEPT !.Sessions    = @ + 1,
                                !.TotalCost   = FAdd(@, s.Usage.CostTotal),
                                !.TotalTokens = @ + s.Usage.Total]
         IN  IF skippedByDay(s)
             THEN accByDay(Tail(ss), agg)
             ELSE accByDay(Tail(ss), Put(agg, date, d1))

\* A faulty variant of dateAsc: the latest date first.
dateDesc(S) == {<<a, b>> \in S \X S : dateLess(b.Date, a.Date)}

\* less(i, j) of the sort by date, on the summaries S
dateAsc(S) == {<<a, b>> \in S \X S : dateLess(a.Date, b.Date)}

aggregateByDay(ss) ==
    LET result == Values(accByDay(ss, << >>))
    IN  SortOutcomes(result, dateAsc(result))

-----------------------------------------------------------------------------
(* getSessionDetails *)

detailOf(s) ==
    [ID |-> s.ID, Agent |-> s.Agent, Type |-> s.Type, CronName |-> s.CronName,
     Model |-> s.Usage.Model, Cost |-> s.Usage.CostTotal,
     Tokens |-> s.Usage.Total, StartedAt |-> s.StartedAt,
     Duration |-> s.Duration]

\* A faulty variant of argumentAfterDetails: the sort runs on the argument,
\* which comes back in the order of the details.
sortedInPlace(ss, d) ==
    [i \in 1..Len(ss) |->
        CHOOSE s \in {ss[k] : k \in 1..Len(ss)} : detailOf(s) = d[i]]

\* What the caller's slice holds after getSessionDetails(ss) has returned
\* the details d: the sort runs on result, a slice of its own, so ss is as
\* it was.
argumentAfterDetails(ss, d) == ss

\* The details, cost descending.  sort.Slice is not stable, so sessions of
\* equal cost come out in an order the documentation leaves open; it is a
\* function of the slice it is given, the same at every call.
getSessionDetails(ss) ==
    LET n     == Len(ss)
        byPos == {<<i, detailOf(ss[i])>> : i \in 1..n}
        less  == {<<a, b>> \in byPos \X byPos : a[2].Cost > b[2].Cost}
        order == CHOOSE p \in SortOutcomes(byPos, less) : TRUE
    IN  {[i \in 1..n |-> order[i][2]]}

-----------------------------------------------------------------------------
(* detectAnomalies *)

HighTokenLimit == 100000
OverkillTokenLimit == 5000

\* s[i:i+len(substr)] == substr for some i in 0..len(s)-len(substr)
findInString(s, substr) ==
    \E i \in 0..(Len(s) - Len(substr)) :
        SubSeq(s, i + 1, i + Len(substr)) = substr

contains(s, substr) ==
    /\ Len(s) >= Len(substr)
    /\ \/ s = substr
       \/ Len(substr) = 0
       \/ SubSeq(s, 1, Len(substr)) = substr
       \/ SubSeq(s, Len(s) - Len(substr) + 1, Len(s)) = substr
       \/ findInString(s, substr)

opusModels ==
    << <<"o", "p", "u", "s">>,
       <<"c", "l", "a", "u", "d", "e", "-", "o", "p", "u", "s">>,
       <<"c", "l", "a", "u", "d", "e", "-", "3", "-", "o", "p", "u", "s">> >>

\* lower is the model unchanged: fmt.Sprintf("%s", model) does not fold case.
containsOpus(model) ==
    LET lower == model
    IN  \E k \in 1..Len(opusModels) : contains(lower, opusModels[k])

isExpensiveCron(s, threshold) ==
    s.Type = SessionTypeCron /\ s.Usage.CostTotal > threshold

\* A faulty variant of isHighToken: the bound itself counts as high.
isHighTokenInclusive(s) == s.Usage.Total >= HighTokenLimit

isHighToken(s) == s.Usage.Total > HighTokenLimit

isOverkill(s) == containsOpus(s.Usage.Model) /\ s.Usage.Total < OverkillTokenLimit

anomaly(type, text, name, num, severity, s) ==
    [Type |-> type,
     Description |-> [text |-> text, name |-> name, num |-> num],
     Severity |-> severity,
     Cost |-> s.Usage.CostTotal, SessionID |-> s.ID, Agent |-> s.Agent]

expensiveCronAnomaly(s, threshold) ==
    anomaly("expensive_cron", "Cron %s exceeded $%.2f threshold",
            s.CronName, threshold, "warning", s)

highTokenAnomaly(s) ==
    anomaly("high_token_count", "Session has unusually high token count (%d)",
            "", s.Usage.Total, "warning", s)

overkillAnomaly(s) ==
    anomaly("opus_overkill",
            "Opus model used for small request (%d tokens), consider cheaper model",
            "", s.Usage.Total, "info", s)

\* The three loops of detectAnomalies: a flag for every session the rule
\* holds of, appended in the order of the sessions.
expensiveCronFlags(ss, threshold) ==
    LET hit == SelectSeq(ss, LAMBDA s : isExpensiveCron(s, threshold))
    IN  [i \in 1..Len(hit) |-> expensiveCronAnomaly(hit[i], threshold)]

highTokenFlags(ss) ==
    LET hit == SelectSeq(ss, isHighToken)
    IN  [i \in 1..Len(hit) |-> highTokenAnomaly(hit[i])]

overkillFlags(ss) ==
    LET hit == SelectSeq(ss, isOverkill)
    IN  [i \in 1..Len(hit) |-> overkillAnomaly(hit[i])]

\* A faulty variant of detectAnomalies: the high-token loop runs first.
detectAnomaliesHighTokenFirst(ss, threshold) ==
    highTokenFlags(ss) \o expensiveCronFlags(ss, threshold) \o overkillFlags(ss)

detectAnomalies(ss, threshold) ==
    expensiveCronFlags(ss, threshold) \o highTokenFlags(ss) \o overkillFlags(ss)

-----------------------------------------------------------------------------
(* Generate *)

NoReport == [none |-> TRUE]

\* The aggregation loops run within Generate, one after the other.
NoTasks == [joined |-> TRUE]

\* The parser is not at work.
NoParser == [pc |-> "idle"]

\* No command is running: New and Generate are called directly.
NoCmd == [pc |-> "lib", flags |-> Config("", "", FALSE, FALSE, FALSE, 0),
          format |-> "", home |-> TRUE, parsed |-> FALSE, printed |-> FALSE,
          err |-> ""]

RECURSIVE sumTotals(_, _)
\* The loop over filtered that adds each session to the report's totals.
sumTotals(ss, acc) ==
    IF ss = << >> THEN acc
    ELSE sumTotals(Tail(ss),
            [TotalCost     |-> FAdd(acc.TotalCost, Head(ss).Usage.CostTotal),
             TotalTokens   |-> acc.TotalTokens + Head(ss).Usage.Total,
             TotalSessions |-> acc.TotalSessions + 1])

\* A faulty variant of calcTotals: the totals taken over the reporter's own sessions.
calcTotalsUnfiltered(ss) ==
    sumTotals(sessions, [TotalCost |-> 0, TotalTokens |-> 0, TotalSessions |-> 0])

calcTotals(ss) ==
    sumTotals(ss, [TotalCost |-> 0, TotalTokens |-> 0, TotalSessions |-> 0])

\* A faulty variant of wantByCron: Full alone does not ask for the cron ranking.
wantByCronCronsOnly(cfg) == cfg.Crons

wantByCron(cfg) == cfg.Crons \/ cfg.Full

wantSessions(cfg) == cfg.Full

\* Under "" and "all" filtered is the caller's slice itself (filterByPeriod
\* returns its argument), so what a callee does to its argument it does to
\* the caller's sessions; under the other labels filtered is a new slice.
\* Within runReport it is the step after reporter.New.
Generate ==
    LET f      == filterByPeriod(sessions, config.Period, now)
        totals == calcTotals(f)
    IN  \E byAgent \in aggregateByAgent(f),
           byType  \in aggregateBySessionType(f),
           byModel \in aggregateByModel(f),
           byDay   \in aggregateByDay(f),
           byCron  \in IF wantByCron(config)
                       THEN {Slice(l) : l \in aggregateByCron(f)}
                       ELSE {NilSlice},
           details \in IF wantSessions(config)
                       THEN {Slice(l) : l \in getSessionDetails(f)}
                       ELSE {NilSlice} :
            /\ cmd.pc \in {"lib", "generate"}
            /\ cmd' = IF cmd.pc = "generate" THEN [cmd EXCEPT !.pc = "print"]
                      ELSE cmd
            /\ filtered' = f
            /\ sessions' = IF isAllPeriods(config.Period) /\ wantSessions(config)
                           THEN argumentAfterDetails(f, details.elems)
                           ELSE sessions
            /\ report' = [GeneratedAt   |-> now,
                          Period        |-> config.Period,
                          TotalCost     |-> totals.TotalCost,
                          TotalTokens   |-> totals.TotalTokens,
                          TotalSessions |-> totals.TotalSessions,
                          ByAgent       |-> byAgent,
                          BySessionType |-> byType,
                          ByCron        |-> byCron,
                          ByModel       |-> byModel,
                          ByDay         |-> byDay,
                          Anomalies     |-> detectAnomalies(f, config.Threshold),
                          Sessions      |-> details]
            /\ UNCHANGED <<config, now, clock, parser, tasks>>

\* The wall clock moves on to its next instant.
Tick ==
    /\ clock # << >>
    /\ now' = Head(clock)
    /\ clock' = Tail(clock)
    /\ UNCHANGED <<sessions, config, filtered, report, cmd, parser, tasks>>

Next == Generate \/ Tick

-----------------------------------------------------------------------------
(* Initial states: New(sessions, config) with the inputs drawn from pools *)

\* The sequences of at most n sessions of S, no session twice (a session id
\* is a file name, unique within its agent's directory).
SeqsUpTo(S, n) ==
    {q \in UNION {[1..k -> S] : k \in 0..n} :
        \A i, j \in 1..Len(q) : i # j => q[i] # q[j]}

At(y, m, d, hh, mm, ss) == Date(y, m, d, hh * 3600 + mm * 60 + ss)

New(inputs, configs, instants) ==
    /\ sessions \in inputs
    /\ config \in configs
    /\ now = Head(instants)
    /\ clock = Tail(instants)
    /\ filtered = << >>
    /\ report = NoReport
    /\ cmd = NoCmd
    /\ tasks = NoTasks
    /\ parser = NoParser

Opus == <<"o", "p", "u", "s">>
Gpt  == <<"g", "p", "t">>

\* Aggregation runs: agents, types, cron jobs and models that repeat, a
\* session with unknown start, one of the day before, and costs whose sums
\* need more than MantBits bits.
Noon == At(2026, 3, 31, 12, 0, 0)

AggPool ==
    { Session("s1", "a", SessionTypeInteractive, "", Opus, 8, 1, 2, 3, Noon),
      Session("s2", "b", SessionTypeCron, "job1", << >>, 1, 2, 2, 4, Noon),
      Session("s3", "b", SessionTypeCron, "job2", Unknown, 1, 0, 5, 5,
              At(2026, 3, 30, 12, 0, 0)),
      Session("s4", "a", SessionTypeSubagent, "", Gpt, 3, 1, 1, 2, ZeroTime),
      Session("s5", "c", SessionTypeCron, "job1", Gpt, 5, 3, 3, 7,
              At(2026, 3, 31, 18, 0, 0)) }

AggConfigs ==
    { Config(p, a, c, m, f, 2) :
        p \in {"", "all", "today", "week"}, a \in {"", "a"}, c \in BOOLEAN,
        m \in BOOLEAN,
        f \in BOOLEAN }

Init ==
    New(SeqsUpTo(AggPool, MaxSessions), AggConfigs,
        <<Noon, At(2026, 4, 1, 12, 0, 0)>>)

Spec == Init /\ [][Next]_vars

\* Period-filter runs: sessions that differ in their start only, at and one
\* second before every boundary of every period, for a clock that reads
\* 2026-03-31 12:00:00 and then 2026-04-01 00:00:00.
FilterStarts ==
    << ZeroTime,
       At(2026, 4, 1, 0, 0, 0),
       At(2026, 3, 31, 0, 0, 0), At(2026, 3, 30, 23, 59, 59),
       At(2026, 3, 30, 0, 0, 0), At(2026, 3, 29, 23, 59, 59),
       At(2026, 3, 24, 12, 0, 0), At(2026, 3, 24, 11, 59, 59),
       At(2026, 3, 3, 12, 0, 0), At(2026, 3, 3, 11, 59, 59) >>

FilterIDs == <<"f0", "f1", "f2", "f3", "f4", "f5", "f6", "f7", "f8", "f9">>

FilterPool ==
    { Session(FilterIDs[k], "a", SessionTypeInteractive, "", Gpt, 1, 1, 1, 2,
              FilterStarts[k]) : k \in 1..Len(FilterStarts) }

FilterConfigs ==
    { Config(p, "", FALSE, FALSE, FALSE, 2) :
        p \in {"", "all", "today", "yesterday", "week", "month", "bogus"} }

InitFilter ==
    New(SeqsUpTo(FilterPool, MaxFilterInput), FilterConfigs,
        <<Noon, At(2026, 4, 1, 0, 0, 0)>>)

SpecFilter == InitFilter /\ [][Next]_vars

\* The sessions of TestFilterByPeriod for a clock that reads t: started at
\* 12:00 of t's date, one day earlier and seven days earlier.
TestFilterSessions(t) ==
    LET today == Date(Year(t), Month(t), Day(t), 12 * 3600)
    IN  << Session("t1", "a", SessionTypeInteractive, "", Gpt, 1, 0, 0, 0, today),
           Session("t2", "a", SessionTypeInteractive, "", Gpt, 2, 0, 0, 0,
                   AddDate(today, 0, 0, -1)),
           Session("t3", "a", SessionTypeInteractive, "", Gpt, 3, 0, 0, 0,
                   AddDate(today, 0, 0, -7)) >>

\* The times of 2026-03-31 at which the test may run, in order.
TestInstants ==
    << At(2026, 3, 31, 0, 0, 0), At(2026, 3, 31, 9, 0, 0),
       At(2026, 3, 31, 11, 59, 59), Noon, At(2026, 3, 31, 15, 0, 0),
       At(2026, 3, 31, 23, 59, 59) >>

TestFilterConfigs ==
    { Config(p, "", FALSE, FALSE, FALSE, 2) :
        p \in {"today", "yesterday", "week", "all", ""} }

\* The runs of TestFilterByPeriod: its three sessions in any order, one of
\* its periods, at any of the instants.
InitTestFilter ==
    New({q \in SeqsUpTo({TestFilterSessions(Noon)[k] : k \in 1..3}, 3) : Len(q) = 3},
        TestFilterConfigs, TestInstants)

SpecTestFilter == InitTestFilter /\ [][Next]_vars

\* Cron runs: the sessions "r1", "r2", ... of one agent, each a cheap or a
\* dearer run of one job, a dear run of another job, or no cron run.
CronKinds ==
    { <<SessionTypeCron, "job1", 1>>, <<SessionTypeCron, "job1", 3>>,
      <<SessionTypeCron, "job2", 4>>, <<SessionTypeInteractive, "", 3>> }

RunIDs == <<"r1", "r2", "r3", "r4", "r5", "r6", "r7">>

CronInputs ==
    { [i \in 1..Len(kinds) |->
          Session(RunIDs[i], "a", kinds[i][1], kinds[i][2], Gpt, kinds[i][3],
                  1, 1, 2, Noon)] :
        kinds \in UNION {[1..k -> CronKinds] : k \in 0..MaxCronInput} }

CronConfigs == { Config("", "", c, FALSE, FALSE, 2) : c \in BOOLEAN }

InitCron == New(CronInputs, CronConfigs, <<Noon, At(2026, 4, 1, 12, 0, 0)>>)

SpecCron == InitCron /\ [][Next]_vars

\* Anomaly runs: sessions at, above and below each bound of each rule, with
\* model names that hold the fragment at the start, inside, at the end, in
\* another case, or not at all.
DetectPool ==
    { Session("d1", "a", SessionTypeCron, "job1", <<"x">> \o Opus \o <<"y">>,
              3, 1, 1, HighTokenLimit + 1, Noon),
      Session("d2", "a", SessionTypeCron, "job2", Gpt,
              2, 1, 1, HighTokenLimit, Noon),
      Session("d3", "b", SessionTypeInteractive, "", Opus,
              3, 1, 1, OverkillTokenLimit - 1, Noon),
      Session("d4", "b", SessionTypeCron, "job1", opusModels[2] \o <<"-", "4">>,
              3, 1, 1, OverkillTokenLimit - 1, At(2026, 3, 30, 12, 0, 0)),
      Session("d5", "c", SessionTypeInteractive, "", <<"a", "-">> \o Opus,
              4, 1, 1, OverkillTokenLimit, Noon),
      Session("d6", "c", SessionTypeInteractive, "", <<"O", "p", "u", "s">>,
              4, 1, 1, OverkillTokenLimit - 1, Noon),
      Session("d7", "c", SessionTypeSubagent, "", << >>,
              1, 1, 1, HighTokenLimit + 1, ZeroTime),
      Session("d8", "a", SessionTypeCron, "job3", <<"o", "p", "u">>,
              1, 1, 1, 10, Noon) }

DetectConfigs ==
    { Config(p, "", FALSE, FALSE, f, th) :
        p \in {"", "today"}, f \in BOOLEAN, th \in {2, 3} }

InitDetect ==
    New(SeqsUpTo(DetectPool, MaxDetectInput), DetectConfigs,
        <<Noon, At(2026, 4, 1, 12, 0, 0)>>)

SpecDetect == InitDetect /\ [][Next]_vars

-----------------------------------------------------------------------------
(* The report command: runReport *)

MaxCmdInput == 2        \* sessions in the agents directory, command runs

\* A faulty variant of validPeriod: every label passes.
validPeriodAny(period) == TRUE

\* validPeriods[reportPeriod]
validPeriod(period) == period \in {"today", "yesterday", "week", "month", "all"}

validFormat(format) == format = "json" \/ format = "text"

\* The return of runReport with an error.
Fail(e) == cmd' = [cmd EXCEPT !.pc = "done", !.err = e]

\* The head of runReport: the agents directory is resolved, then the period
\* label and the format are validated, in this order.
Validate ==
    /\ cmd.pc = "start"
    /\ IF ~cmd.home THEN Fail("failed to get home directory")
       ELSE IF cmd.flags.Period # "" /\ ~validPeriod(cmd.flags.Period)
            THEN Fail("invalid period")
       ELSE IF ~validFormat(cmd.format) THEN Fail("invalid format")
       ELSE cmd' = [cmd EXCEPT !.pc = "parse"]
    /\ UNCHANGED <<sessions, config, now, clock, filtered, report, parser, tasks>>

\* The sessions ParseAll reads agent by agent: those of one agent follow
\* each other.
ByAgentDirs(q) ==
    \A i, j, k \in 1..Len(q) :
        (i < j /\ j < k /\ q[i].Agent = q[k].Agent) => q[j].Agent = q[i].Agent

\* ParseAll(agentFilter) on the sessions found on disk: those of the agent
\* asked for, or of every agent when the filter is empty.
ParseAll(disk, agentFilter) ==
    SelectSeq(disk, LAMBDA s : agentFilter = "" \/ s.Agent = agentFilter)

\* p.ParseAll(reportAgent): the agents directory cannot be read, or the
\* sessions come back.
ParseSessions ==
    /\ cmd.pc = "parse"
    /\ \/ /\ Fail("failed to parse sessions")
          /\ UNCHANGED sessions
       \/ \E disk \in {q \in SeqsUpTo(AggPool, MaxCmdInput) : ByAgentDirs(q)} :
            /\ sessions' = ParseAll(disk, cmd.flags.Agent)
            /\ cmd' = [cmd EXCEPT !.pc = "new", !.parsed = TRUE]
    /\ UNCHANGED <<config, now, clock, filtered, report, parser, tasks>>

\* reporter.New(sessions, cfg) with the configuration built from the flags.
NewReporter ==
    /\ cmd.pc = "new"
    /\ config' = cmd.flags
    /\ cmd' = [cmd EXCEPT !.pc = "generate"]
    /\ UNCHANGED <<sessions, now, clock, filtered, report, parser, tasks>>

\* formatter.Format(report) and fmt.Print(output).  Neither formatter fails
\* on a report of finite costs.
PrintReport ==
    /\ cmd.pc = "print"
    /\ cmd' = [cmd EXCEPT !.pc = "done", !.printed = TRUE]
    /\ UNCHANGED <<sessions, config, now, clock, filtered, report, parser, tasks>>

NextCmd ==
    Validate \/ ParseSessions \/ NewReporter \/ Generate \/ PrintReport \/ Tick

\* The flags of a run: period labels of the set, the empty label, and labels
\* outside the set (an unknown word, a known word in another case).
CmdFlags ==
    { Config(p, a, FALSE, FALSE, f, 2) :
        p \in {"", "today", "all", "daily", "Today"}, a \in {"", "a"},
        f \in BOOLEAN }

CmdFormats == {"text", "json", "xml"}

InitCmd ==
    /\ sessions = << >>
    /\ config = NoCmd.flags
    /\ now = Noon
    /\ clock = <<At(2026, 4, 1, 12, 0, 0)>>
    /\ filtered = << >>
    /\ report = NoReport
    /\ parser = NoParser
    /\ tasks = NoTasks
    /\ cmd \in [pc : {"start"}, flags : CmdFlags, format : CmdFormats,
                home : BOOLEAN, parsed : {FALSE}, printed : {FALSE},
                err : {""}]

SpecCmd == InitCmd /\ [][NextCmd]_vars

------------------------------------------------------------------------------
(* package parser: session keys.  A string is the sequence of its
   characters; the regular expressions are matched character by character. *)

MaxSegments == 6        \* colon-separated segments of a session id

HasPrefix(s, w) == Len(s) >= Len(w) /\ SubSeq(s, 1, Len(w)) = w
Drop(s, n) == SubSeq(s, n + 1, Len(s))

RECURSIVE runUntil(_, _)
\* The longest prefix of s that does not hold the character sep.
runUntil(s, sep) ==
    IF s = << >> \/ Head(s) = sep THEN << >>
    ELSE <<Head(s)>> \o runUntil(Tail(s), sep)

RECURSIVE Split(_, _)
\* strings.Split(s, sep) for a one-character sep
Split(s, sep) ==
    LET run == runUntil(s, sep)
    IN  IF Len(run) = Len(s) THEN <<s>>
        ELSE <<run>> \o Split(Drop(s, Len(run) + 1), sep)

RECURSIVE Join(_, _)
\* strings.Join(parts, sep)
Join(parts, sep) ==
    IF parts = << >> THEN << >>
    ELSE IF Len(parts) = 1 THEN parts[1]
    ELSE parts[1] \o <<sep>> \o Join(Tail(parts), sep)

Digits == {"0", "1", "2", "3", "4", "5", "6", "7", "8", "9"}
Lower  == {"a", "b", "c", "d", "e", "f", "g", "h", "i", "j", "k", "l", "m",
           "n", "o", "p", "q", "r", "s", "t", "u", "v", "w", "x", "y", "z"}
Upper  == {"A", "B", "C", "D", "E", "F", "G", "H", "I", "J", "K", "L", "M",
           "N", "O", "P", "Q", "R", "S", "T", "U", "V", "W", "X", "Y", "Z"}

isAlphaNumeric(s) ==
    /\ \A i \in 1..Len(s) : s[i] \in Lower \cup Upper \cup Digits
    /\ Len(s) > 0

\* The cron id without its trailing hash, when it has one.
deriveCronName(cronID) ==
    LET parts == Split(cronID, "-")
        last  == parts[Len(parts)]
    IN  IF Len(parts) > 1 /\ Len(last) >= 6 /\ isAlphaNumeric(last)
        THEN Join(SubSeq(parts, 1, Len(parts) - 1), "-")
        ELSE cronID

WordAgent    == <<"a", "g", "e", "n", "t">>
WordCron     == <<"c", "r", "o", "n">>
WordRun      == <<"r", "u", "n">>
WordSubagent == <<"s", "u", "b", "a", "g", "e", "n", "t">>

\* [^:]+ at the head of s: the run of characters up to the next colon.
notColons(s) == runUntil(s, ":")

\* (.+)$ on s: all of s, which is not empty and holds no line break.
dotPlus(s) == s # << >> /\ \A i \in 1..Len(s) : s[i] # "\n"

\* FindStringSubmatch: the whole match and its groups, or nil.
NoMatch == << >>

\* ^agent:([^:]+):cron:([^:]+):run:(.+)$
cronPattern(s) ==
    LET head == WordAgent \o <<":">>
        r1   == Drop(s, Len(head))
        name == notColons(r1)
        r2   == Drop(r1, Len(name))
        mid  == <<":">> \o WordCron \o <<":">>
        r3   == Drop(r2, Len(mid))
        id   == notColons(r3)
        r4   == Drop(r3, Len(id))
        run  == <<":">> \o WordRun \o <<":">>
        sid  == Drop(r4, Len(run))
    IN  IF /\ HasPrefix(s, head) /\ name # << >>
           /\ HasPrefix(r2, mid) /\ id # << >>
           /\ HasPrefix(r4, run) /\ dotPlus(sid)
        THEN <<s, name, id, sid>>
        ELSE NoMatch

\* ^agent:([^:]+):subagent:(.+)$
subagentPattern(s) ==
    LET head == WordAgent \o <<":">>
        r1   == Drop(s, Len(head))
        name == notColons(r1)
        r2   == Drop(r1, Len(name))
        mid  == <<":">> \o WordSubagent \o <<":">>
        sid  == Drop(r2, Len(mid))
    IN  IF /\ HasPrefix(s, head) /\ name # << >>
           /\ HasPrefix(r2, mid) /\ dotPlus(sid)
        THEN <<s, name, sid>>
        ELSE NoMatch

\* ^agent:([^:]+)$
interactivePattern(s) ==
    LET head == WordAgent \o <<":">>
        r1   == Drop(s, Len(head))
        name == notColons(r1)
    IN  IF HasPrefix(s, head) /\ name # << >> /\ Len(name) = Len(r1)
        THEN <<s, name>>
        ELSE NoMatch

\* The Session parseSessionFile starts from.
FreshSession(agent, sessionID) ==
    [ID |-> sessionID, Agent |-> agent, Type |-> "", CronID |-> << >>,
     CronName |-> << >>, SubagentID |-> << >>, StartedAt |-> ZeroTime]

\* A faulty variant of parseSessionKey: the agent name taken for the cron id
\* and for the subagent id.
parseSessionKeyNameAsID(s, sessionID) ==
    IF Len(cronPattern(sessionID)) = 4
    THEN [s EXCEPT !.Type = SessionTypeCron,
                   !.CronID = cronPattern(sessionID)[2],
                   !.CronName = deriveCronName(cronPattern(sessionID)[2])]
    ELSE IF Len(subagentPattern(sessionID)) = 3
    THEN [s EXCEPT !.Type = SessionTypeSubagent,
                   !.SubagentID = subagentPattern(sessionID)[2]]
    ELSE [s EXCEPT !.Type = SessionTypeInteractive]

\* s.parseSessionKey(sessionID): the session s with its metadata set.
parseSessionKey(s, sessionID) ==
    IF Len(cronPattern(sessionID)) = 4
    THEN [s EXCEPT !.Type = SessionTypeCron,
                   !.CronID = cronPattern(sessionID)[3],
                   !.CronName = deriveCronName(cronPattern(sessionID)[3])]
    ELSE IF Len(subagentPattern(sessionID)) = 3
    THEN [s EXCEPT !.Type = SessionTypeSubagent,
                   !.SubagentID = subagentPattern(sessionID)[3]]
    ELSE IF Len(interactivePattern(sessionID)) = 2
    THEN [s EXCEPT !.Type = SessionTypeInteractive]
    ELSE [s EXCEPT !.Type = SessionTypeInteractive]

\* parseSessionKey on the session parseSessionFile has just created.
ParseKey ==
    /\ parser.pc = "key"
    /\ parser' = [parser EXCEPT !.pc = "keyed",
                                !.session = parseSessionKey(@, parser.key)]
    /\ UNCHANGED <<sessions, config, now, clock, filtered, report, cmd, tasks>>

NextKey == ParseKey

\* The segments session ids are put together from: the words of the key
\* formats, a name that ends in a hash, and the empty segment.
HashedName == <<"d", "-", "a", "b", "c", "1", "2", "3">>
Segments ==
    {WordAgent, WordCron, WordRun, WordSubagent, HashedName, << >>}

\* Session ids: up to MaxSegments segments joined by colons.
InitKey ==
    /\ sessions = << >>
    /\ config = NoCmd.flags
    /\ now = Noon
    /\ clock = << >>
    /\ filtered = << >>
    /\ report = NoReport
    /\ cmd = NoCmd
    /\ tasks = NoTasks
    /\ \E q \in UNION {[1..k -> Segments] : k \in 1..MaxSegments} :
          parser = [pc |-> "key", segs |-> q, key |-> Join(q, ":"),
                    session |-> FreshSession(<<"u">>, Join(q, ":"))]

SpecKey == InitKey /\ [][NextKey]_vars

------------------------------------------------------------------------------
(* package parser: parseAgentSessions.  The sessions.json index is a map
   from session keys to entries; an int64 of milliseconds since the epoch
   is the pair of its whole days and the milliseconds of the last day. *)

MaxFiles == 2           \* session files in an agent's sessions directory

\* time.UnixMilli(ms)
UnixMilli(ms) ==
    [day |-> DaysFromCivil(1970, 1, 1) + ms.days, sec |-> ms.ms \div 1000]

\* s.Key(): the key the session is looked up under in the index.
Key(s) ==
    CASE s.Type = SessionTypeCron ->
            Join(<<WordAgent, s.Agent, WordCron, s.CronID, WordRun, s.ID>>, ":")
      [] s.Type = SessionTypeSubagent ->
            Join(<<WordAgent, s.Agent, WordSubagent, s.ID>>, ":")
      [] OTHER -> Join(<<WordAgent, s.Agent>>, ":")

\* parseSessionFile on a file that opens: the metadata of the session id
\* and the timestamp of the first assistant message (zero when none has one).
parseSessionFile(agent, file) ==
    [parseSessionKey(FreshSession(agent, file.id), file.id)
        EXCEPT !.StartedAt = file.first]

\* sessionIndex[session.Key()]: the key of the entry found, if any.
indexKeyOf(session, sessionIndex) ==
    IF Key(session) \in DOMAIN sessionIndex THEN <<Key(session)>> ELSE << >>

\* sessions.json is read into sessionIndex; when it cannot be read or
\* parsed the index stays empty.
ReadIndex ==
    /\ parser.pc = "index"
    /\ parser' = [parser EXCEPT !.pc = "files",
                                !.sessionIndex = IF parser.indexOk
                                                 THEN parser.disk ELSE << >>]
    /\ UNCHANGED <<sessions, config, now, clock, filtered, report, cmd, tasks>>

\* One turn of the loop over the directory entries: the file is parsed, or
\* skipped with a warning; a parsed session found in the index under its
\* key takes the entry's updatedAt as StartedAt.  stamped records the key
\* of the entry each returned session was stamped from, if any.
ParseFile ==
    /\ parser.pc = "files"
    /\ parser.next <= Len(parser.files)
    /\ LET file    == parser.files[parser.next]
           session == parseSessionFile(parser.agent, file)
           found   == indexKeyOf(session, parser.sessionIndex)
           dated   == IF found # << >>
                      THEN [session EXCEPT !.StartedAt =
                               UnixMilli(parser.sessionIndex[found[1]].UpdatedAt)]
                      ELSE session
       IN  parser' = IF file.ok
                     THEN [parser EXCEPT !.next = @ + 1,
                                         !.sessions = Append(@, dated),
                                         !.stamped = Append(@, found)]
                     ELSE [parser EXCEPT !.next = @ + 1]
    /\ UNCHANGED <<sessions, config, now, clock, filtered, report, cmd, tasks>>

\* The loop is over: the sessions are returned.
ReturnSessions ==
    /\ parser.pc = "files"
    /\ parser.next > Len(parser.files)
    /\ parser' = [parser EXCEPT !.pc = "done"]
    /\ UNCHANGED <<sessions, config, now, clock, filtered, report, cmd, tasks>>

NextAgent == ReadIndex \/ ParseFile \/ ReturnSessions

AgentU == <<"u">>

\* The session files of agent u: ids in the cron and in the subagent key
\* format, plain ids, a session without a timestamped assistant message, and
\* a file that cannot be parsed.
FilePool ==
    { [id |-> Join(<<WordAgent, AgentU, WordCron, <<"j">>, WordRun, <<"x">> >>, ":"),
       first |-> At(2026, 3, 27, 9, 0, 0), ok |-> TRUE, pos |-> 1],
      [id |-> Join(<<WordAgent, AgentU, WordSubagent, <<"t">> >>, ":"),
       first |-> At(2026, 3, 28, 9, 0, 0), ok |-> TRUE, pos |-> 2],
      [id |-> <<"s", "1">>, first |-> At(2026, 3, 30, 9, 0, 0), ok |-> TRUE,
       pos |-> 3],
      [id |-> <<"s", "2">>, first |-> At(2026, 3, 31, 9, 0, 0), ok |-> TRUE,
       pos |-> 4],
      [id |-> <<"s", "3">>, first |-> ZeroTime, ok |-> TRUE, pos |-> 5],
      [id |-> <<"s", "4">>, first |-> At(2026, 3, 29, 9, 0, 0), ok |-> FALSE,
       pos |-> 6] }

\* os.ReadDir lists the files sorted by name; pos is the place of a file's
\* name among the names of the pool.
DirListings ==
    {q \in SeqsUpTo(FilePool, MaxFiles) :
        \A i \in 1..Len(q) - 1 : q[i].pos < q[i + 1].pos}

\* The entries sessions.json may hold: the agent's main session, which is
\* the file s1, and the keys of the subagent and the cron file.
IndexPool ==
    { <<Join(<<WordAgent, AgentU>>, ":"),
        [SessionID |-> <<"s", "1">>, UpdatedAt |-> [days |-> 20540, ms |-> 3600000]]>>,
      <<Join(<<WordAgent, AgentU, WordSubagent, WordAgent, AgentU, WordSubagent,
               <<"t">> >>, ":"),
        [SessionID |-> Join(<<WordAgent, AgentU, WordSubagent, <<"t">> >>, ":"),
         UpdatedAt |-> [days |-> 20541, ms |-> 7200000]]>>,
      <<Join(<<WordAgent, AgentU, WordSubagent, <<"t">> >>, ":"),
        [SessionID |-> <<"s", "2">>, UpdatedAt |-> [days |-> 20542, ms |-> 0]]>> }

\* The index holding the entries E.
IndexOf(E) ==
    [k \in {e[1] : e \in E} |-> (CHOOSE e \in E : e[1] = k)[2]]

InitAgent ==
    /\ sessions = << >>
    /\ config = NoCmd.flags
    /\ now = Noon
    /\ clock = << >>
    /\ filtered = << >>
    /\ report = NoReport
    /\ cmd = NoCmd
    /\ tasks = NoTasks
    /\ \E fs \in DirListings, E \in SUBSET IndexPool,
          readable \in BOOLEAN :
          parser = [pc |-> "index", agent |-> AgentU, files |-> fs,
                    disk |-> IndexOf(E), indexOk |-> readable,
                    sessionIndex |-> << >>, next |-> 1,
                    sessions |-> << >>, stamped |-> << >>]

SpecAgent == InitAgent /\ [][NextAgent]_vars

------------------------------------------------------------------------------
(* The loops of the five aggregators run as independent tasks.  A step of a
   task is one turn of its loop over the filtered sessions. *)

MaxTaskInput == 2       \* filtered sessions the tasks loop over

TaskNames == {"agent", "type", "cron", "model", "day"}

\* One turn of the loop of an aggregator: the session s added to its map.
turnOf(name, s, agg) ==
    CASE name = "agent" -> accByAgent(<<s>>, agg)
      [] name = "type"  -> accBySessionType(<<s>>, agg)
      [] name = "cron"  -> accByCron(<<s>>, agg)
      [] name = "model" -> accByModel(<<s>>, agg)
      [] name = "day"   -> accByDay(<<s>>, agg)

\* A faulty variant of mapOf: the by-type loop writes to the by-agent map.
mapOfTypeInAgent(name) == IF name = "type" THEN "agent" ELSE name

\* The map a loop writes to: the agg it has made itself.
mapOf(name) == name

\* A task takes one turn of its loop: it reads the next filtered session
\* and writes to its map.
TaskTurn ==
    \E name \in TaskNames :
        /\ ~tasks.joined
        /\ tasks.next[name] <= Len(filtered)
        /\ tasks' = [tasks EXCEPT
                        !.next[name] = @ + 1,
                        !.agg[mapOf(name)] =
                            turnOf(name, filtered[tasks.next[name]], @)]
        /\ UNCHANGED <<sessions, config, now, clock, filtered, report, cmd,
                       parser>>

\* All loops are over: the tasks are joined and the report is assembled.
JoinTasks ==
    /\ ~tasks.joined
    /\ \A name \in TaskNames : tasks.next[name] > Len(filtered)
    /\ tasks' = [tasks EXCEPT !.joined = TRUE]
    /\ UNCHANGED <<sessions, config, now, clock, filtered, report, cmd,
                   parser>>

NextTasks == TaskTurn \/ JoinTasks

\* The tasks start on the filtered sessions of a Generate under "".
InitTasks ==
    /\ sessions \in SeqsUpTo(AggPool, MaxTaskInput)
    /\ filtered = sessions
    /\ config = NoCmd.flags
    /\ now = Noon
    /\ clock = << >>
    /\ report = NoReport
    /\ cmd = NoCmd
    /\ parser = NoParser
    /\ tasks = [joined |-> FALSE,
                next |-> [name \in TaskNames |-> 1],
                agg |-> [name \in TaskNames |-> << >>]]

SpecTasks == InitTasks /\ [][NextTasks]_vars

------------------------------------------------------------------------------
(* Properties *)

Generated == report # NoReport

Range(xs) == {xs[i] : i \in 1..Len(xs)}

RECURSIVE FSumTo(_, _)
\* xs[1] + ... + xs[n] in float64, added from the left starting at 0
FSumTo(xs, n) == IF n = 0 THEN 0 ELSE FAdd(FSumTo(xs, n - 1), xs[n])

RECURSIVE SumTo(_, _)
\* xs[1] + ... + xs[n], exactly
SumTo(xs, n) == IF n = 0 THEN 0 ELSE SumTo(xs, n - 1) + xs[n]

FSum(xs) == FSumTo(xs, Len(xs))
Sum(xs)  == SumTo(xs, Len(xs))

CostsOf(list)    == [i \in 1..Len(list) |-> list[i].TotalCost]
TokensOf(list)   == [i \in 1..Len(list) |-> list[i].TotalTokens]
CountsOf(list)   == [i \in 1..Len(list) |-> list[i].Sessions]
SessionCosts(ss) == [i \in 1..Len(ss) |-> ss[i].Usage.CostTotal]
SessionTokens(ss) == [i \in 1..Len(ss) |-> ss[i].Usage.Total]

CountsReconcile(list) ==
    /\ Sum(TokensOf(list)) = report.TotalTokens
    /\ Sum(CountsOf(list)) = report.TotalSessions

CostReconciles(list) == FSum(CostsOf(list)) = report.TotalCost

\* No addition of costs of these sessions rounds: their exact sum, and so
\* every partial sum, has at most MantBits significant bits.
SumsAreExact(ss) == Sum(SessionCosts(ss)) <= 2^MantBits

\* C1 as stated: the by-agent, by-session-type and by-model lists each sum
\* to the report's TotalCost, TotalTokens and TotalSessions.
C1_DimensionsSumToTotals ==
    Generated =>
        \A list \in {report.ByAgent, report.BySessionType, report.ByModel} :
            CostReconciles(list) /\ CountsReconcile(list)

\* C1 as amended: the three lists each sum to TotalTokens and TotalSessions
\* exactly, and to TotalCost whenever no float64 addition of the costs rounds.
C1_DimensionsReconcile ==
    Generated =>
        \A list \in {report.ByAgent, report.BySessionType, report.ByModel} :
            /\ CountsReconcile(list)
            /\ SumsAreExact(filtered) => CostReconciles(list)

C1_Witness ==
    /\ Generated
    /\ report.TotalSessions = 3
    /\ SumsAreExact(filtered)
    /\ Len(report.ByAgent) >= 2
    /\ Len(report.BySessionType) >= 2
    /\ Len(report.ByModel) >= 2
    /\ \E i \in 1..Len(report.ByAgent) : report.ByAgent[i].Sessions = 2

\* The sessions the period filter kept at the time of the last Generate.
KeptAtGenerate ==
    filterByPeriod(sessions, config.Period, report.GeneratedAt)

\* C2: the totals are the count and the sums of Usage.CostTotal and
\* Usage.Total over exactly the sessions the period filter kept, and
\* report.Period is the configured label.
C2_TotalsOverFiltered ==
    Generated =>
        /\ filtered = KeptAtGenerate
        /\ report.TotalSessions = Len(filtered)
        /\ report.TotalTokens = Sum(SessionTokens(filtered))
        /\ report.TotalCost = FSum(SessionCosts(filtered))
        /\ report.Period = config.Period

C2_Witness ==
    /\ Generated
    /\ config.Period = "today"
    /\ Len(sessions) = 3
    /\ Len(filtered) = 2
    /\ report.TotalSessions = 2
    /\ report.TotalCost > 0

\* Instants named by the claims about the period bounds, for a clock
\* reading t: local midnight of t's date, of the day before, and the last
\* second before each.
MidnightOf(t)     == [day |-> t.day, sec |-> 0]
LastSecondBefore(t) == [day |-> t.day - 1, sec |-> SecondsPerDay - 1]
DayBefore(t)      == [day |-> t.day - 1, sec |-> t.sec]
NotBefore(t, u)   == t = u \/ After(t, u)
Known(s)          == ~IsZero(s.StartedAt)

\* C3: under "today" a session started exactly at local midnight of now's
\* date is kept; one started at 23:59:59 of the day before is dropped under
\* "today" and kept under "yesterday".
C3_TodayBoundary ==
    Generated =>
        LET t == report.GeneratedAt
        IN  \A i \in 1..Len(sessions) :
                LET s == sessions[i]
                IN  /\ (config.Period = "today" /\ s.StartedAt = MidnightOf(t))
                        => s \in Range(filtered)
                    /\ (config.Period = "today"
                            /\ s.StartedAt = LastSecondBefore(t))
                        => s \notin Range(filtered)
                    /\ (config.Period = "yesterday"
                            /\ s.StartedAt = LastSecondBefore(t))
                        => s \in Range(filtered)

\* C4: under "yesterday" exactly the sessions with known start in
\* [midnight of the day before now, midnight of now's date) are kept.
C4_YesterdayWindow ==
    (Generated /\ config.Period = "yesterday") =>
        LET t     == report.GeneratedAt
            lower == MidnightOf(DayBefore(t))
            upper == MidnightOf(t)
            InWindow(s) == /\ Known(s)
                           /\ NotBefore(s.StartedAt, lower)
                           /\ Before(s.StartedAt, upper)
        IN  filtered = SelectSeq(sessions, InWindow)

\* C5: under "week" ("month") exactly the sessions with known start on or
\* after now minus 7 days (now minus one calendar month) are kept.
C5_RollingLowerBound ==
    (Generated /\ config.Period \in {"week", "month"}) =>
        LET t     == report.GeneratedAt
            lower == IF config.Period = "week"
                     THEN [day |-> t.day - 7, sec |-> t.sec]
                     ELSE AddDate(t, 0, -1, 0)
            OnOrAfter(s) == Known(s) /\ NotBefore(s.StartedAt, lower)
        IN  filtered = SelectSeq(sessions, OnOrAfter)

\* C6: with the label "" or "all" the filter returns every input session in
\* the input order, those with unknown start included.
C6_AllIsIdentity ==
    (Generated /\ config.Period \in {"", "all"}) => filtered = sessions

C6_Witness ==
    /\ Generated
    /\ config.Period = ""
    /\ Len(filtered) = 2
    /\ filtered[1] # filtered[2]
    /\ \E i \in 1..2 : ~Known(filtered[i])

\* C7: with any other label no session with unknown start is kept.
C7_UnknownStartDropped ==
    (Generated /\ config.Period \notin {"", "all"}) =>
        \A i \in 1..Len(filtered) : Known(filtered[i])

C7_Witness ==
    /\ Generated
    /\ config.Period \in {"today", "bogus"}
    /\ \E i \in 1..Len(sessions) : ~Known(sessions[i])
    /\ Len(filtered) = 1

\* The three anomaly rules as the specification states them.
Rules == <<"expensive_cron", "high_token_count", "opus_overkill">>

HasFragment(model) ==
    \E i \in 1..Len(model) : i + 3 <= Len(model)
        /\ model[i] = "o" /\ model[i + 1] = "p"
        /\ model[i + 2] = "u" /\ model[i + 3] = "s"

RuleHolds(rule, s) ==
    CASE rule = "expensive_cron" ->
            s.Type = "cron" /\ s.Usage.CostTotal > config.Threshold
      [] rule = "high_token_count" -> s.Usage.Total > 100000
      [] rule = "opus_overkill" ->
            HasFragment(s.Usage.Model) /\ s.Usage.Total < 5000

\* The (session, rule) pairs of the filtered set whose rule holds.
Hits ==
    {<<i, k>> \in (1..Len(filtered)) \X (1..3) : RuleHolds(Rules[k], filtered[i])}

\* C8: the by-agent, by-session-type, by-model and by-day lists are built
\* over the filtered set whatever the flags (Agent and Models are not
\* read); the by-cron list is built iff Crons or Full, the session details
\* iff Full, and the anomalies always, over the filtered set.
C8_DimensionsByFlags ==
    Generated =>
        /\ {report.ByAgent[i].Agent : i \in 1..Len(report.ByAgent)}
              = {filtered[i].Agent : i \in 1..Len(filtered)}
        /\ {report.BySessionType[i].Type : i \in 1..Len(report.BySessionType)}
              = {filtered[i].Type : i \in 1..Len(filtered)}
        /\ {report.ByModel[i].Model : i \in 1..Len(report.ByModel)}
              = {IF filtered[i].Usage.Model = << >> THEN Unknown
                 ELSE filtered[i].Usage.Model : i \in 1..Len(filtered)}
        /\ {report.ByDay[i].Date : i \in 1..Len(report.ByDay)}
              = {CivilFromDays(filtered[i].StartedAt.day) :
                    i \in {j \in 1..Len(filtered) : Known(filtered[j])}}
        /\ report.ByCron.isNil <=> ~(config.Crons \/ config.Full)
        /\ ~report.ByCron.isNil =>
              {report.ByCron.elems[i].CronID : i \in 1..Len(report.ByCron.elems)}
                 = {filtered[i].CronID :
                       i \in {j \in 1..Len(filtered) : filtered[j].Type = "cron"}}
        /\ report.ByCron.isNil => report.ByCron.elems = << >>
        /\ report.Sessions.isNil <=> ~config.Full
        /\ ~report.Sessions.isNil =>
              Len(report.Sessions.elems) = Len(filtered)
        /\ report.Sessions.isNil => report.Sessions.elems = << >>
        /\ Len(report.Anomalies) = Cardinality(Hits)

\* Full without Crons, an agent filter naming one agent while another
\* agent's sessions are reported, and anomalies found.
C8_Witness ==
    /\ Generated
    /\ config.Full /\ ~config.Crons /\ ~config.Models /\ config.Agent = "a"
    /\ \E i \in 1..Len(report.ByAgent) : report.ByAgent[i].Agent # "a"
    /\ Len(report.ByCron.elems) >= 1
    /\ Len(report.Sessions.elems) >= 2
    /\ Len(report.ByModel) >= 2
    /\ Len(report.Anomalies) >= 1

FlagsOfRule(rule) ==
    SelectSeq(report.Anomalies, LAMBDA a : a.Type = rule)

\* C9: one flag per (session, rule) pair whose rule holds and no other:
\* for every rule and every session id, as many flags of that rule for that
\* id as kept sessions with that id of which the rule holds.
C9_OneFlagPerHit ==
    Generated =>
        /\ \A k \in 1..Len(report.Anomalies) :
              report.Anomalies[k].Type \in Range(Rules)
        /\ \A r \in 1..3 :
              \A id \in {s.ID : s \in Range(filtered)}
                          \cup {a.SessionID : a \in Range(report.Anomalies)} :
                 Cardinality({k \in 1..Len(report.Anomalies) :
                                 /\ report.Anomalies[k].Type = Rules[r]
                                 /\ report.Anomalies[k].SessionID = id})
                   = Cardinality({i \in 1..Len(filtered) :
                                 /\ filtered[i].ID = id
                                 /\ RuleHolds(Rules[r], filtered[i])})

\* A session that raises two flags beside one that sits on the bounds of
\* the first two rules and raises none.
C9_Witness ==
    /\ Generated
    /\ Len(filtered) = 2
    /\ \E i, j \in 1..2 :
          /\ RuleHolds("expensive_cron", filtered[i])
          /\ RuleHolds("high_token_count", filtered[i])
          /\ filtered[j].Type = "cron"
          /\ filtered[j].Usage.CostTotal = config.Threshold
          /\ filtered[j].Usage.Total = 100000
    /\ Len(report.Anomalies) = 2

RuleRank(type) == CHOOSE r \in 1..3 : Rules[r] = type

\* C10: flags come in rule order (expensive-cron, high-token, overkill);
\* within a rule in the order of their sessions in the caller's sequence;
\* each carries the cost, id and agent of its session.
C10_FlagOrder ==
    Generated =>
        /\ \A k, l \in 1..Len(report.Anomalies) :
              k < l => RuleRank(report.Anomalies[k].Type)
                          <= RuleRank(report.Anomalies[l].Type)
        /\ \A r \in 1..3 :
              LET flags == FlagsOfRule(Rules[r])
                  kept  == SelectSeq(sessions, LAMBDA s : s \in Range(filtered))
                  hit   == SelectSeq(kept, LAMBDA s : RuleHolds(Rules[r], s))
              IN  /\ Len(flags) = Len(hit)
                  /\ \A k \in 1..Len(flags) :
                        /\ flags[k].SessionID = hit[k].ID
                        /\ flags[k].Agent = hit[k].Agent
                        /\ flags[k].Cost = hit[k].Usage.CostTotal

\* Two sessions that both raise an expensive-cron flag and between them a
\* high-token and an overkill flag.
C10_Witness ==
    /\ Generated
    /\ Len(report.Anomalies) = 4
    /\ Len(FlagsOfRule("expensive_cron")) = 2
    /\ Len(FlagsOfRule("high_token_count")) = 1
    /\ Len(FlagsOfRule("opus_overkill")) = 1
    /\ report.Anomalies[1].SessionID # report.Anomalies[2].SessionID

\* A report without its generation timestamp.
Content(r) == [r EXCEPT !.GeneratedAt = ZeroTime]

\* C11: a second Generate on the same sessions and configuration at the
\* same clock reading returns the report the first returned, GeneratedAt
\* aside: every list has the same entries in the same order.
C11_SameReportTwice ==
    [][(/\ Generated /\ Generated'
        /\ report.GeneratedAt = now /\ now' = now
        /\ sessions' = sessions /\ config' = config)
            => Content(report') = Content(report)]_vars

\* The sessions of the filtered set that satisfy a condition on one field,
\* in order, and the sums the claims state over them.
OfAgent(a) == SelectSeq(filtered, LAMBDA s : s.Agent = a)
InputsOf(ss)  == [i \in 1..Len(ss) |-> ss[i].Usage.Input]
OutputsOf(ss) == [i \in 1..Len(ss) |-> ss[i].Usage.Output]

NonIncreasingCost(list) ==
    \A i \in 1..Len(list) - 1 : list[i].TotalCost >= list[i + 1].TotalCost

\* The scenario of TestAggregateByAgent, in units of 0.5: two sessions of
\* one agent (1.5 / 1000 tokens, 0.5 / 500) and one of another (3.0 / 2000).
ScenarioSessions ==
    << Session("", "A", "", "", << >>, 3, 0, 0, 1000, ZeroTime),
       Session("", "A", "", "", << >>, 1, 0, 0, 500, ZeroTime),
       Session("", "B", "", "", << >>, 6, 0, 0, 2000, ZeroTime) >>

ScenarioByAgent ==
    << [Agent |-> "B", Sessions |-> 1, TotalCost |-> 6, InputTokens |-> 0,
        OutputTokens |-> 0, TotalTokens |-> 2000],
       [Agent |-> "A", Sessions |-> 2, TotalCost |-> 4, InputTokens |-> 0,
        OutputTokens |-> 0, TotalTokens |-> 1500] >>

\* C12: the by-agent list has exactly one entry per agent of the filtered
\* sessions, holding the count and the sums of cost, input, output and
\* total tokens of that agent's sessions, in order of TotalCost descending;
\* the three-session scenario gives [B(3.0, 1, 2000), A(2.0, 2, 1500)].
C12_ByAgentEntries ==
    /\ aggregateByAgent(ScenarioSessions) = {ScenarioByAgent}
    /\ Generated =>
        /\ \A i \in 1..Len(report.ByAgent) :
              LET e   == report.ByAgent[i]
                  own == OfAgent(e.Agent)
              IN  /\ Len(own) >= 1
                  /\ \A j \in 1..Len(report.ByAgent) :
                        report.ByAgent[j].Agent = e.Agent => j = i
                  /\ e.Sessions = Len(own)
                  /\ e.TotalCost = FSum(SessionCosts(own))
                  /\ e.InputTokens = Sum(InputsOf(own))
                  /\ e.OutputTokens = Sum(OutputsOf(own))
                  /\ e.TotalTokens = Sum(SessionTokens(own))
        /\ \A s \in Range(filtered) :
              \E i \in 1..Len(report.ByAgent) : report.ByAgent[i].Agent = s.Agent
        /\ NonIncreasingCost(report.ByAgent)

\* A single-session agent of higher cost ahead of an agent with two sessions.
C12_Witness ==
    /\ Generated
    /\ Len(filtered) = 3
    /\ Len(report.ByAgent) = 2
    /\ report.ByAgent[1].Sessions = 1
    /\ report.ByAgent[2].Sessions = 2
    /\ report.ByAgent[1].TotalCost > report.ByAgent[2].TotalCost
    /\ filtered[1].Agent = report.ByAgent[2].Agent

\* The cron sessions of ss that ran one job, in order.
RunsOf(ss, name, id) ==
    SelectSeq(ss, LAMBDA s : /\ s.Type = SessionTypeCron
                             /\ s.CronName = name /\ s.CronID = id)

\* q is total / n as float64 gives it: the representable value nearest to
\* the exact quotient (q in units of 1 / AvgScale).
IsQuotient(q, total, n) ==
    LET exact == total * AvgScale          \* n times the exact quotient
        diff  == IF q * n >= exact THEN q * n - exact ELSE exact - q * n
    IN  /\ Round(q) = q
        /\ 2 * diff <= Ulp(q) * n

\* list is a by-cron list of the sessions ss.
CronEntriesOk(list, ss) ==
    /\ \A i \in 1..Len(list) :
          LET e   == list[i]
              own == RunsOf(ss, e.CronName, e.CronID)
          IN  /\ \A j \in 1..Len(list) :
                    (list[j].CronName = e.CronName /\ list[j].CronID = e.CronID)
                        => j = i
              /\ e.Runs >= 1
              /\ e.Runs = Len(own)
              /\ e.TotalCost = FSum(SessionCosts(own))
              /\ IsQuotient(e.AvgCost, e.TotalCost, e.Runs)
    /\ \A k \in 1..Len(ss) :
          ss[k].Type = SessionTypeCron =>
              \E i \in 1..Len(list) : /\ list[i].CronName = ss[k].CronName
                                      /\ list[i].CronID = ss[k].CronID

\* Three runs of one job whose average is not a representable value, and a
\* session that is not a cron run.
ThreeRuns ==
    << Session("r1", "a", SessionTypeCron, "job1", << >>, 1, 0, 0, 1, ZeroTime),
       Session("r2", "a", SessionTypeInteractive, "", << >>, 4, 0, 0, 1, ZeroTime),
       Session("r3", "a", SessionTypeCron, "job1", << >>, 2, 0, 0, 1, ZeroTime),
       Session("r4", "a", SessionTypeCron, "job1", << >>, 2, 0, 0, 1, ZeroTime) >>

\* Two jobs whose ids differ in the trailing hash only: deriveCronName gives
\* both the same name.
SameNameJobs ==
    << [Session("n1", "a", SessionTypeCron, "daily-abc123", << >>, 1, 0, 0, 1,
                ZeroTime) EXCEPT !.CronName = "daily"],
       [Session("n2", "a", SessionTypeCron, "daily-xyz789", << >>, 2, 0, 0, 1,
                ZeroTime) EXCEPT !.CronName = "daily"],
       [Session("n3", "a", SessionTypeCron, "daily-abc123", << >>, 3, 0, 0, 1,
                ZeroTime) EXCEPT !.CronName = "daily"] >>

\* C13: the by-cron list ignores the sessions that are not cron runs and
\* has exactly one entry per (CronName, CronID) pair of the cron sessions;
\* each entry has Runs >= 1 and AvgCost = TotalCost / Runs (the float64
\* quotient).
C13_ByCronEntries ==
    /\ \A l \in aggregateByCron(ThreeRuns) :
          /\ Len(l) = 1 /\ l[1].Runs = 3 /\ l[1].TotalCost = 5
          /\ CronEntriesOk(l, ThreeRuns)
    /\ \A l \in aggregateByCron(SameNameJobs) :
          /\ Len(l) = 2 /\ l[1].Runs = 2 /\ l[2].Runs = 1
          /\ CronEntriesOk(l, SameNameJobs)
    /\ (Generated /\ ~report.ByCron.isNil)
          => CronEntriesOk(report.ByCron.elems, filtered)

\* A job with two runs, a job with one, and a session that is no cron run.
C13_Witness ==
    /\ Generated /\ ~report.ByCron.isNil
    /\ Len(filtered) = 3
    /\ \E s \in Range(filtered) : s.Type # SessionTypeCron
    /\ \E i \in 1..Len(report.ByCron.elems) :
          /\ report.ByCron.elems[i].Runs = 2
          /\ report.ByCron.elems[i].AvgCost * 2
                = report.ByCron.elems[i].TotalCost * AvgScale

\* The place of a session type in the fixed order.
TypeRank(type) ==
    CASE type = SessionTypeInteractive -> 1
      [] type = SessionTypeCron        -> 2
      [] type = SessionTypeSubagent    -> 3

\* C14: the by-type list has at most one entry per session type, only for
\* the types of the filtered sessions, in the order interactive, cron,
\* subagent, whatever the order of the sessions and the costs of the groups.
C14_TypeOrder ==
    Generated =>
        LET list == report.BySessionType
        IN  /\ \A i, j \in 1..Len(list) : list[i].Type = list[j].Type => i = j
            /\ {list[i].Type : i \in 1..Len(list)}
                  = {s.Type : s \in Range(filtered)}
            /\ \A i, j \in 1..Len(list) :
                  i < j => TypeRank(list[i].Type) < TypeRank(list[j].Type)

\* The three types, met in the order subagent, cron, interactive, the cron
\* group being the cheapest and the interactive one the dearest.
C14_Witness ==
    /\ Generated
    /\ Len(filtered) = 3
    /\ filtered[1].Type = SessionTypeSubagent
    /\ filtered[2].Type = SessionTypeCron
    /\ filtered[3].Type = SessionTypeInteractive
    /\ Len(report.BySessionType) = 3
    /\ report.BySessionType[2].TotalCost < report.BySessionType[3].TotalCost
    /\ report.BySessionType[3].TotalCost < report.BySessionType[1].TotalCost

\* The sessions of the filtered set counted under a model name, in order.
OfModel(m) ==
    SelectSeq(filtered, LAMBDA s : \/ s.Usage.Model = m
                                   \/ m = Unknown /\ s.Usage.Model = << >>)

\* C15: the by-model list groups the sessions by model string, the empty
\* model read as "unknown": the sessions without a model and those whose
\* model is literally "unknown" are in one entry, no entry has an empty
\* model name, and the entries are in order of TotalCost descending.
C15_EmptyModelIsUnknown ==
    Generated =>
        LET list == report.ByModel
        IN  /\ \A i \in 1..Len(list) :
                  LET e   == list[i]
                      own == OfModel(e.Model)
                  IN  /\ e.Model # << >>
                      /\ \A j \in 1..Len(list) : list[j].Model = e.Model => j = i
                      /\ Len(own) >= 1
                      /\ e.Sessions = Len(own)
                      /\ e.TotalCost = FSum(SessionCosts(own))
                      /\ e.InputTokens = Sum(InputsOf(own))
                      /\ e.OutputTokens = Sum(OutputsOf(own))
                      /\ e.TotalTokens = Sum(SessionTokens(own))
            /\ \A s \in Range(filtered) :
                  \E i \in 1..Len(list) :
                      list[i].Model = IF s.Usage.Model = << >> THEN Unknown
                                      ELSE s.Usage.Model
            /\ NonIncreasingCost(list)

\* A session without a model and one of model "unknown" in one entry, after
\* a dearer entry.
C15_Witness ==
    /\ Generated
    /\ \E s, u \in Range(filtered) :
          s.Usage.Model = << >> /\ u.Usage.Model = Unknown
    /\ Len(report.ByModel) = 2
    /\ report.ByModel[2].Model = Unknown
    /\ report.ByModel[2].Sessions = 2
    /\ report.ByModel[1].TotalCost > report.ByModel[2].TotalCost

\* The sessions of the filtered set that started on a date, in order.
OnDate(d) ==
    SelectSeq(filtered, LAMBDA s : /\ ~IsZero(s.StartedAt)
                                   /\ FormatDate(s.StartedAt) = d)

\* C16: the by-day list leaves out every session whose StartedAt is the zero
\* time, groups the others by the calendar date of StartedAt and has one
\* entry per date, the dates strictly ascending.
C16_ByDayEntries ==
    Generated =>
        LET list == report.ByDay
        IN  /\ \A i \in 1..Len(list) :
                  /\ Len(OnDate(list[i].Date)) >= 1
                  /\ list[i].Sessions = Len(OnDate(list[i].Date))
            /\ \A s \in Range(filtered) :
                  ~IsZero(s.StartedAt) =>
                      \E i \in 1..Len(list) : list[i].Date = FormatDate(s.StartedAt)
            /\ Sum(CountsOf(list)) = Len(SelectSeq(filtered, Known))
            /\ \A i \in 1..Len(list) - 1 : dateLess(list[i].Date, list[i + 1].Date)

\* Two sessions of one date at different hours, with a session of the day
\* before met between them.
C16_Witness ==
    /\ Generated
    /\ Len(filtered) = 3
    /\ filtered[1].StartedAt.day = filtered[3].StartedAt.day
    /\ filtered[1].StartedAt.sec # filtered[3].StartedAt.sec
    /\ ~IsZero(filtered[2].StartedAt)
    /\ filtered[2].StartedAt.day < filtered[1].StartedAt.day
    /\ Len(report.ByDay) = 2
    /\ report.ByDay[2].Sessions = 2

\* C17: along the by-agent, by-cron and by-model lists and the session
\* details the cost never increases from an entry to the next, and the
\* details have exactly one entry per filtered session.
C17_CostNonIncreasing ==
    Generated =>
        LET details == report.Sessions.elems
        IN  /\ NonIncreasingCost(report.ByAgent)
            /\ NonIncreasingCost(report.ByCron.elems)
            /\ NonIncreasingCost(report.ByModel)
            /\ \A i \in 1..Len(details) - 1 : details[i].Cost >= details[i + 1].Cost
            /\ ~report.Sessions.isNil =>
                  /\ Len(details) = Len(filtered)
                  /\ \A k \in 1..Len(filtered) :
                        Cardinality({i \in 1..Len(details) :
                                        details[i] = detailOf(filtered[k])}) = 1

\* Three sessions met cheapest first, of two jobs, with details and by-cron
\* list computed.
C17_Witness ==
    /\ Generated
    /\ ~report.Sessions.isNil /\ ~report.ByCron.isNil
    /\ Len(filtered) = 3
    /\ filtered[1].Usage.CostTotal <= filtered[2].Usage.CostTotal
    /\ filtered[2].Usage.CostTotal < filtered[3].Usage.CostTotal
    /\ report.Sessions.elems[1] = detailOf(filtered[3])
    /\ Len(report.ByCron.elems) = 2
    /\ Len(report.ByAgent) >= 2
    /\ Len(report.ByModel) >= 2

\* The filtered sessions with and without a start time, in order.
KnownStart   == SelectSeq(filtered, Known)
UnknownStart == SelectSeq(filtered, LAMBDA s : ~Known(s))

\* The by-day list against the totals, in tokens and session count: equal
\* under a concrete period, short by the sessions without a start time
\* under "" and "all".
ByDayCountsReconcile ==
    /\ Sum(TokensOf(report.ByDay)) = Sum(SessionTokens(KnownStart))
    /\ Sum(CountsOf(report.ByDay)) = Len(KnownStart)
    /\ ~isAllPeriods(report.Period) => CountsReconcile(report.ByDay)
    /\ isAllPeriods(report.Period) =>
          /\ report.TotalTokens - Sum(TokensOf(report.ByDay))
                = Sum(SessionTokens(UnknownStart))
          /\ report.TotalSessions - Sum(CountsOf(report.ByDay))
                = Len(UnknownStart)

\* The same in cost.
ByDayCostReconciles ==
    /\ FSum(CostsOf(report.ByDay)) = FSum(SessionCosts(KnownStart))
    /\ ~isAllPeriods(report.Period) => CostReconciles(report.ByDay)
    /\ isAllPeriods(report.Period) =>
          FAdd(FSum(CostsOf(report.ByDay)), FSum(SessionCosts(UnknownStart)))
              = report.TotalCost

\* C18 as stated: the by-day list sums in cost, tokens and session count to
\* the totals of the filtered sessions with a known StartedAt, which are the
\* report's totals under a concrete period and fall short of them by the
\* sessions with unknown StartedAt under "" and "all".
C18_ByDaySumsToKnownTotals ==
    Generated => ByDayCostReconciles /\ ByDayCountsReconcile

\* C18 as amended: so in tokens and session count always, and in cost
\* whenever no float64 addition of the filtered sessions' costs rounds.
C18_ByDayReconciles ==
    Generated =>
        /\ ByDayCountsReconcile
        /\ SumsAreExact(filtered) => ByDayCostReconciles

\* Under "" or "all": two days, and a session without a start time that the
\* totals count and the by-day list leaves out.
C18_Witness ==
    /\ Generated
    /\ isAllPeriods(report.Period)
    /\ SumsAreExact(filtered)
    /\ Len(filtered) = 3
    /\ Len(UnknownStart) = 1
    /\ Len(report.ByDay) = 2
    /\ report.TotalCost > FSum(CostsOf(report.ByDay))

\* C20: Generate leaves the caller's session sequence as it was (same
\* sessions, same order, same field values) under every period and
\* configuration, "" and "all" where the filtered slice is the caller's
\* slice and Full mode where the details are sorted included.
C20_SessionsUnchanged == [][sessions' = sessions]_vars

\* After a Generate under "" or "all" with details: the filtered slice is
\* the caller's, and the details are in another order than the sessions.
C20_Witness ==
    /\ Generated
    /\ isAllPeriods(report.Period)
    /\ ~report.Sessions.isNil
    /\ filtered = sessions
    /\ Len(sessions) = 3
    /\ report.Sessions.elems[1] = detailOf(sessions[3])
    /\ report.Sessions.elems[3] = detailOf(sessions[1])

\* The run was given a period label that is neither empty nor of the set.
BadPeriod ==
    cmd.flags.Period \notin {"", "today", "yesterday", "week", "month", "all"}

\* C19: the report command rejects a non-empty period label outside
\* {today, yesterday, week, month, all} with an error before any session is
\* parsed and before the reporter is invoked: no report is generated or
\* printed, and Generate is reached only with a label of the set or the
\* empty label.
C19_InvalidPeriodRejected ==
    /\ (cmd.pc # "lib" /\ BadPeriod) =>
          /\ cmd.pc \in {"start", "done"}
          /\ cmd.pc = "done" =>
                cmd.err = IF cmd.home THEN "invalid period"
                          ELSE "failed to get home directory"
          /\ ~cmd.parsed /\ sessions = << >>
          /\ config = NoCmd.flags
          /\ report = NoReport
          /\ ~cmd.printed
    /\ (cmd.pc \in {"generate", "print"} \/ cmd.printed \/ Generated) =>
          (cmd.flags.Period = "" \/ validPeriod(cmd.flags.Period))

\* A run with a label in the wrong case and an otherwise valid command
\* line has ended with the period error.
C19_Witness ==
    /\ cmd.pc = "done"
    /\ cmd.flags.Period = "Today"
    /\ cmd.home /\ validFormat(cmd.format)
    /\ cmd.err = "invalid period"
    /\ report = NoReport

\* The segments q of a session id spell agent:{name}:cron:{id}:run:{sid},
\* {name} and {id} not empty, {sid} not empty (it may hold colons).
IsCronForm(q) ==
    /\ Len(q) >= 6
    /\ q[1] = WordAgent /\ q[2] # << >>
    /\ q[3] = WordCron /\ q[4] # << >>
    /\ q[5] = WordRun /\ ~(Len(q) = 6 /\ q[6] = << >>)

\* The segments q spell agent:{name}:subagent:{sid}.
IsSubagentForm(q) ==
    /\ Len(q) >= 4
    /\ q[1] = WordAgent /\ q[2] # << >>
    /\ q[3] = WordSubagent /\ ~(Len(q) = 4 /\ q[4] = << >>)

\* The ids of TestParseSessionKey and what they are parsed to.
KeyOfCronTest ==
    Join(<<WordAgent, <<"u", "r", "z", "a">>, WordCron,
           <<"d", "a", "i", "l", "y", "-", "k", "i", "c", "k", "o", "f", "f",
             "-", "a", "b", "c", "1", "2", "3">>,
           WordRun, <<"x", "y", "z", "7", "8", "9">> >>, ":")
KeyOfSubagentTest ==
    Join(<<WordAgent, <<"a", "m", "o", "s">>, WordSubagent,
           <<"t", "a", "s", "k", "-", "1", "2", "3">> >>, ":")
KeysOfTestParse ==
    LET s0 == FreshSession(<< >>, << >>)
    IN  /\ parseSessionKey(s0, KeyOfCronTest) =
              [s0 EXCEPT !.Type = SessionTypeCron,
                         !.CronID = <<"d", "a", "i", "l", "y", "-", "k", "i",
                                      "c", "k", "o", "f", "f", "-", "a", "b",
                                      "c", "1", "2", "3">>,
                         !.CronName = <<"d", "a", "i", "l", "y", "-", "k", "i",
                                        "c", "k", "o", "f", "f">>]
        /\ parseSessionKey(s0, KeyOfSubagentTest) =
              [s0 EXCEPT !.Type = SessionTypeSubagent,
                         !.SubagentID = <<"t", "a", "s", "k", "-", "1", "2", "3">>]
        /\ parseSessionKey(s0, Join(<<WordAgent, <<"m", "a", "i", "n">> >>, ":"))
              = [s0 EXCEPT !.Type = SessionTypeInteractive]
        /\ parseSessionKey(s0, <<"s", "i", "m", "p", "l", "e", "-", "i", "d">>)
              = [s0 EXCEPT !.Type = SessionTypeInteractive]

\* C21: parseSessionKey makes a session id agent:{name}:cron:{id}:run:{sid}
\* a cron session with CronID {id} and the CronName derived from it, an id
\* agent:{name}:subagent:{sid} a subagent session with SubagentID {sid}, and
\* every other id an interactive session with empty CronID, CronName and
\* SubagentID ({name} and {id} not empty and without colon, {sid} not empty).
\* No id has both forms, so trying the cron form first decides nothing.
C21_KeyClassified ==
    /\ KeysOfTestParse
    /\ parser.pc = "keyed" =>
          LET q  == parser.segs
              s  == parser.session
              s0 == FreshSession(s.Agent, s.ID)
          IN  /\ ~(IsCronForm(q) /\ IsSubagentForm(q))
              /\ IsCronForm(q) =>
                    s = [s0 EXCEPT !.Type = SessionTypeCron,
                                   !.CronID = q[4],
                                   !.CronName = IF q[4] = HashedName
                                                THEN <<"d">> ELSE q[4]]
              /\ IsSubagentForm(q) =>
                    s = [s0 EXCEPT !.Type = SessionTypeSubagent,
                                   !.SubagentID = Join(SubSeq(q, 4, Len(q)), ":")]
              /\ ~(IsCronForm(q) \/ IsSubagentForm(q)) =>
                    s = [s0 EXCEPT !.Type = SessionTypeInteractive]

\* A cron id with a hash has been parsed: the name is the id without it.
C21_Witness ==
    /\ parser.pc = "keyed"
    /\ IsCronForm(parser.segs)
    /\ parser.session.Type = SessionTypeCron
    /\ parser.session.CronID = HashedName
    /\ parser.session.CronName = <<"d">>

\* The place in the filtered sequence of the first session of a group, the
\* group given as the set of its sessions.
FirstSeen(group) ==
    CHOOSE k \in 1..Len(filtered) :
        /\ filtered[k] \in group
        /\ \A l \in 1..k - 1 : filtered[l] \notin group

AgentGroup(e) == {s \in Range(filtered) : s.Agent = e.Agent}
ModelGroup(e) == {s \in Range(filtered) : modelKey(s) = e.Model}
CronGroup(e) ==
    {s \in Range(filtered) : /\ s.Type = SessionTypeCron
                             /\ s.CronName = e.CronName /\ s.CronID = e.CronID}

\* C22: in the by-agent, by-cron and by-model lists, groups of equal total
\* cost are in the order in which their first session is met in the session
\* sequence.
C22_TiesByFirstSeen ==
    Generated =>
        /\ \A i, j \in 1..Len(report.ByAgent) :
              (i < j /\ report.ByAgent[i].TotalCost = report.ByAgent[j].TotalCost)
                  => FirstSeen(AgentGroup(report.ByAgent[i]))
                        < FirstSeen(AgentGroup(report.ByAgent[j]))
        /\ \A i, j \in 1..Len(report.ByModel) :
              (i < j /\ report.ByModel[i].TotalCost = report.ByModel[j].TotalCost)
                  => FirstSeen(ModelGroup(report.ByModel[i]))
                        < FirstSeen(ModelGroup(report.ByModel[j]))
        /\ \A i, j \in 1..Len(report.ByCron.elems) :
              (i < j /\ report.ByCron.elems[i].TotalCost
                            = report.ByCron.elems[j].TotalCost)
                  => FirstSeen(CronGroup(report.ByCron.elems[i]))
                        < FirstSeen(CronGroup(report.ByCron.elems[j]))

\* C23: of three sessions started at 12:00 today, one day earlier and seven
\* days earlier, filterByPeriod keeps 1 under "today", 1 under "yesterday"
\* and all 3 under "week", "all" and "", at whatever time of day it runs.
C23_TestFilterCounts ==
    (Generated /\ Range(sessions) = Range(TestFilterSessions(report.GeneratedAt)))
        => Len(filtered) = CASE report.Period = "today"     -> 1
                             [] report.Period = "yesterday" -> 1
                             [] OTHER                       -> 3

\* The cron runs of an entry's job among the filtered sessions, in order.
OwnRuns(e) == RunsOf(filtered, e.CronName, e.CronID)

\* MaxCost is the largest cost of the job's runs and at most TotalCost.
MaxCostOk(e) ==
    /\ \E s \in Range(OwnRuns(e)) : e.MaxCost = s.Usage.CostTotal
    /\ \A s \in Range(OwnRuns(e)) : e.MaxCost >= s.Usage.CostTotal
    /\ e.MaxCost <= e.TotalCost

\* AvgCost <= MaxCost, AvgCost being in units of 1 / AvgScale.
AvgAtMostMax(e) == e.AvgCost <= e.MaxCost * AvgScale

\* C24 as stated: in every by-cron entry MaxCost is the largest cost of the
\* group's sessions, and AvgCost <= MaxCost <= TotalCost.
C24_AvgMaxTotalOrdered ==
    (Generated /\ ~report.ByCron.isNil) =>
        \A i \in 1..Len(report.ByCron.elems) :
            MaxCostOk(report.ByCron.elems[i]) /\ AvgAtMostMax(report.ByCron.elems[i])

\* C24 as amended: MaxCost is the largest cost of the group's sessions and
\* MaxCost <= TotalCost; AvgCost <= MaxCost whenever the float64 sum
\* TotalCost is the exact sum of the group's costs.
C24_MaxCostIsLargest ==
    (Generated /\ ~report.ByCron.isNil) =>
        \A i \in 1..Len(report.ByCron.elems) :
            LET e == report.ByCron.elems[i]
            IN  /\ MaxCostOk(e)
                /\ e.TotalCost = Sum(SessionCosts(OwnRuns(e))) => AvgAtMostMax(e)

\* A job with three runs, the dearest neither first nor last, whose cost
\* sum is exact.
C24_Witness ==
    /\ Generated /\ ~report.ByCron.isNil
    /\ Len(report.ByCron.elems) = 1
    /\ LET e == report.ByCron.elems[1]
       IN  /\ e.Runs = 3
           /\ e.TotalCost = Sum(SessionCosts(OwnRuns(e)))
           /\ e.MaxCost = OwnRuns(e)[2].Usage.CostTotal
           /\ e.MaxCost > OwnRuns(e)[1].Usage.CostTotal
           /\ e.MaxCost > OwnRuns(e)[3].Usage.CostTotal
           /\ e.AvgCost < e.MaxCost * AvgScale

\* The cron sessions of the filtered set, in order, and the entries of the
\* by-session-type list for the cron type (none or one).
CronSessions == SelectSeq(filtered, LAMBDA s : s.Type = SessionTypeCron)
CronTypeEntries ==
    SelectSeq(report.BySessionType, LAMBDA e : e.Type = SessionTypeCron)
RunsOfList(list) == [i \in 1..Len(list) |-> list[i].Runs]

\* Runs and tokens of the by-cron list against the cron entry.
CronCountsReconcile ==
    /\ Sum(RunsOfList(report.ByCron.elems)) = CronTypeEntries[1].Sessions
    /\ Sum(TokensOf(report.ByCron.elems)) = CronTypeEntries[1].TotalTokens

\* Costs of the by-cron list, summed in list order, against the cron entry.
CronCostReconciles ==
    FSum(CostsOf(report.ByCron.elems)) = CronTypeEntries[1].TotalCost

\* Without a cron session there is neither a by-cron entry nor a cron entry.
NoCronNoEntries ==
    CronSessions = << >> =>
        report.ByCron.elems = << >> /\ CronTypeEntries = << >>

\* C26 as stated: a computed by-cron list reconciles with the cron entry of
\* the by-session-type list in runs, cost and tokens; without cron sessions
\* the list is empty and there is no cron entry.
C26_CronReconcilesWithType ==
    (Generated /\ ~report.ByCron.isNil) =>
        /\ NoCronNoEntries
        /\ CronSessions # << >> =>
              /\ Len(CronTypeEntries) = 1
              /\ CronCountsReconcile
              /\ CronCostReconciles

\* C26 as amended: so in runs and tokens always, and in cost whenever no
\* float64 addition of the cron sessions' costs rounds.
C26_CronReconciles ==
    (Generated /\ ~report.ByCron.isNil) =>
        /\ NoCronNoEntries
        /\ CronSessions # << >> =>
              /\ Len(CronTypeEntries) = 1
              /\ CronCountsReconcile
              /\ SumsAreExact(CronSessions) => CronCostReconciles

\* Two jobs, one of them with several runs, next to a session that is no
\* cron run, the costs adding up without rounding.
C26_Witness ==
    /\ Generated /\ ~report.ByCron.isNil
    /\ Len(report.ByCron.elems) = 2
    /\ Len(CronSessions) >= 3
    /\ Len(filtered) > Len(CronSessions)
    /\ SumsAreExact(CronSessions)
    /\ CronTypeEntries[1].Sessions = Len(CronSessions)

\* C27: parseAgentSessions gives an index entry's updatedAt only to the
\* session the entry refers to: no two sessions of the agent take their
\* StartedAt from the same index entry, and a session without an index
\* entry under its key keeps the timestamp of its first assistant message.
C27_OneSessionPerIndexEntry ==
    parser.pc = "done" =>
        /\ \A i, j \in 1..Len(parser.sessions) :
              (i # j /\ parser.stamped[i] # << >>)
                  => parser.stamped[i] # parser.stamped[j]
        /\ \A i \in 1..Len(parser.sessions) :
              Key(parser.sessions[i]) \notin DOMAIN parser.sessionIndex =>
                  \E f \in Range(parser.files) :
                      /\ f.id = parser.sessions[i].ID
                      /\ parser.sessions[i].StartedAt = f.first

\* The map each aggregator builds when the five run one after the other.
MapsInSequence ==
    [name \in TaskNames |->
        CASE name = "agent" -> accByAgent(filtered, << >>)
          [] name = "type"  -> accBySessionType(filtered, << >>)
          [] name = "cron"  -> accByCron(filtered, << >>)
          [] name = "model" -> accByModel(filtered, << >>)
          [] name = "day"   -> accByDay(filtered, << >>)]

\* C25: the five aggregators share no mutable state, so run as independent
\* tasks in any interleaving of their loop turns and joined before assembly
\* they build the group summaries (keys, counts, sums) they build when run
\* one after the other; and no turn changes the filtered sessions.
C25_TasksAsInSequence ==
    /\ (tasks # NoTasks /\ tasks.joined) => tasks.agg = MapsInSequence
    /\ tasks # NoTasks => filtered = sessions

\* The tasks are joined after two turns each over two sessions of two
\* agents and two days, both runs of one cron job.
C25_Witness ==
    /\ tasks # NoTasks /\ tasks.joined
    /\ Len(filtered) = 2
    /\ Cardinality(DOMAIN tasks.agg["agent"]) = 2
    /\ Cardinality(DOMAIN tasks.agg["cron"]) = 1
    /\ Cardinality(DOMAIN tasks.agg["day"]) = 2

=============================================================================
